---- MODULE Spec2Model ----
(***************************************************************************)
(* Starry Night canvas particle system (src/starry-night.js).              *)
(*                                                                         *)
(* Number representation.  The script computes in IEEE doubles; the model  *)
(* computes in fixed point:                                                *)
(*   - positions and velocities: 1/10000 pixel (FP units per pixel);       *)
(*   - distances used by the force laws: 1/100 pixel (CP units per pixel); *)
(*   - Math.random() results, sizes: thousandths;                          *)
(*   - vortex strengths: hundredths;                                       *)
(*   - shooting-star life and decay: millionths;                           *)
(*   - scrollDim: thousandths, or NaN / Infinity where the script's        *)
(*     division by a zero viewport height yields them.                     *)
(* Divisions truncate toward zero (Quot).                                  *)
(*                                                                         *)
(* Not modelled: colour, twinkle rate/phase and the displayed size of a    *)
(* star (they only parameterise the draw calls, never their order or       *)
(* presence), and the geometry of the moon.                                *)
(***************************************************************************)
EXTENDS Integers, Sequences, FiniteSets, TLC

VARIABLES
    W, H,            \* canvas dimensions, pixels                (line 28)
    mouse,           \* [x, y], each Null or Num(pixels)         (line 29)
    stars,           \* sequence of star records                 (line 30)
    shootingStars,   \* sequence of shooting-star records        (line 31)
    vortexCenters,   \* sequence of [x, y, str, r]               (line 32)
    time,            \* number of update() calls (time / 0.016)  (line 33)
    scrollDim,       \* <<"num", thousandths>>, <<"NaN",0>>, <<"Infinity",0>> (line 34)
    removed,         \* shooting stars spliced out by the latest update()
    wrapped,         \* per star, the local flag `wrapped` of the latest update()
    ops,             \* draw operations issued by the handler that ran last
    last,            \* the handler that ran last
    inputs           \* number of input events delivered so far (bounds the run)

vars == <<W, H, mouse, stars, shootingStars, vortexCenters, time, scrollDim, removed, wrapped, ops, last, inputs>>

(***************************************************************************)
(* Bounds of the model.                                                    *)
(***************************************************************************)
MaxTicks == 13       \* update() calls in a run of Spec
MaxInputs == 2       \* input events in a run of Spec
LifeTicks == 39      \* update() calls in a run of SpecLife
LifeInputs == 1      \* input events in a run of SpecLife
PopTicks == 4        \* update() calls in a run of SpecPop

(***************************************************************************)
(* Arithmetic helpers.                                                     *)
(***************************************************************************)
FP == 100 * 100
CP == 10 * 10

Null == <<>>
Num(v) == <<v>>

Abs(a) == IF a < 0 THEN -a ELSE a
Min(a, b) == IF a < b THEN a ELSE b
Max(a, b) == IF a > b THEN a ELSE b

\* JavaScript division of a by b > 0, truncated toward zero.
Quot(a, b) == IF a >= 0 THEN a \div b ELSE -((-a) \div b)

RECURSIVE SqrtSearch(_, _, _)
SqrtSearch(n, lo, hi) ==
    IF lo >= hi THEN lo
    ELSE LET mid == (lo + hi + 1) \div 2
         IN  IF mid * mid <= n THEN SqrtSearch(n, mid, hi)
                               ELSE SqrtSearch(n, lo, mid - 1)

\* Math.sqrt, rounded down.
Sqrt(n) == SqrtSearch(n, 0, 46340)

\* The n-th result of Math.random() (thousandths) of the stream named by seed.
Rand(seed, n) == ((seed + n) * 7919 + n * n * 31) % 1000

(***************************************************************************)
(* Resize & vortex layout.                                                 *)
(***************************************************************************)
VortexLayout(w, h) ==
    << [x |-> w * 2500, y |-> h * 2200, str |->  70, r |-> w * 16],
       [x |-> w * 6200, y |-> h * 1400, str |-> -55, r |-> w * 14],
       [x |-> w * 4500, y |-> h * 4800, str |->  45, r |-> w * 18],
       [x |-> w * 1200, y |-> h * 6000, str |-> -35, r |-> w * 12],
       [x |-> w * 8000, y |-> h * 3800, str |->  60, r |-> w * 15] >>

(***************************************************************************)
(* Star factory.                                                           *)
(***************************************************************************)
\* Band selected by the first draw: <<size base, size range, speed>> in
\* thousandths of a pixel.
Band(rnd) ==
    IF rnd < 40 THEN <<2200, 2800, 250>>
    ELSE IF rnd < 140 THEN <<1000, 1800, 400>>
    ELSE IF rnd < 320 THEN <<1000, 2200, 350>>
    ELSE <<400, 1600, 500>>

\* makeStar() consuming draws b, b+1, ..., b+8 of the stream.
MakeStar(seed, b, w, h) ==
    LET band == Band(Rand(seed, b))
        sz   == band[1] + Quot(Rand(seed, b + 1) * band[2], 1000)
        spd  == band[3] * 10
    IN  [ x        |-> Rand(seed, b + 2) * w * 10,
          y        |-> Rand(seed, b + 3) * h * 10,
          vx       |-> Quot((Rand(seed, b + 4) - 500) * spd, 1000),
          vy       |-> Quot((Rand(seed, b + 5) - 500) * spd, 1000),
          baseSize |-> sz,
          trail    |-> << >>,
          maxTrail |-> 12 + Quot(Rand(seed, b + 8) * 18, 1000) ]

\* StarCount without the cap of 280.
StarCountUncapped(w, h) == (w * h) \div 5200

StarCount(w, h) == Min(280, (w * h) \div 5200)

InitStars(seed, w, h) ==
    [i \in 1..StarCount(w, h) |-> MakeStar(seed, 9 * (i - 1), w, h)]

(***************************************************************************)
(* Shooting star.                                                          *)
(***************************************************************************)
\* <<cos, sin>> of the angle PI/4 + (r - 0.5) * 0.6, in 1/10000, for the
\* angle draws the model uses (r = 0, 500, 999 thousandths).
CosSin(r) ==
    IF r < 250 THEN <<8845, 4666>>
    ELSE IF r < 750 THEN <<7071, 7071>>
    ELSE <<4671, 8842>>

\* spawnShootingStar() with its six draws d = [angle, speed, x, y, decay, size];
\* born (the tick of the spawn) is a history field naming the entity.
SpawnShootingStar(d, w, h, t) ==
    LET speed == 10000 + d.speed * 10
    IN  [ x        |-> d.x * w * 8,
          y        |-> Quot(d.y * h * 35, 10),
          vx       |-> Quot(CosSin(d.angle)[1] * speed, 1000),
          vy       |-> Quot(CosSin(d.angle)[2] * speed, 1000),
          life     |-> 1000000,
          decay    |-> 14000 + d.decay * 12,
          trail    |-> << >>,
          maxTrail |-> 28,
          size     |-> 1400 + Quot(d.size * 1200, 1000),
          born     |-> t ]

(***************************************************************************)
(* Physics update.                                                         *)
(***************************************************************************)
\* SpawnAllowed without the test on the number of active shooting stars.
SpawnUncapped(draw, list) == draw * 10 < 25

\* Lines 163-165: the spawn draw (thousandths) and the cap on active ones.
SpawnAllowed(draw, list) == draw * 10 < 25 /\ Len(list) < 2

MaybeSpawn(list, draw, d, w, h, t) ==
    IF SpawnAllowed(draw, list)
    THEN Append(list, SpawnShootingStar(d, w, h, t))
    ELSE list

\* Lines 177-188: velocity increment <<dvx, dvy>> of star s from vortex vt.
VortexInc(s, vt) ==
    LET dx == Quot(s.x - vt.x, 100)
        dy == Quot(s.y - vt.y, 100)
        d2 == dx * dx + dy * dy
    IN  IF /\ Abs(dx) < vt.r
           /\ Abs(dy) < vt.r
           /\ d2 < vt.r * vt.r
           /\ d2 > CP * CP
        THEN LET d == Sqrt(d2)
                 f == Quot((vt.r - d) * vt.str * 25, vt.r)
             IN  << Quot(-dy * f, d) - Quot(Quot(dx * f, d) * 8, 100),
                    Quot( dx * f, d) - Quot(Quot(dy * f, d) * 8, 100) >>
        ELSE <<0, 0>>

RECURSIVE VortexSum(_, _, _)
VortexSum(s, vcs, k) ==
    IF k = 0 THEN <<0, 0>>
    ELSE LET rest == VortexSum(s, vcs, k - 1)
             inc  == VortexInc(s, vcs[k])
         IN  <<rest[1] + inc[1], rest[2] + inc[2]>>

\* MouseInc with an absent pointer read as the point (0, 0) instead of
\* disabling the force.
MouseIncZeroed(s, m) ==
    LET mx == IF m.x # Null THEN m.x[1] ELSE 0
        my == IF m.y # Null THEN m.y[1] ELSE 0
        dx == Quot(s.x - mx * FP, 100)
        dy == Quot(s.y - my * FP, 100)
        d2 == dx * dx + dy * dy
    IN  IF /\ Abs(dx) < 280 * CP
           /\ Abs(dy) < 280 * CP
           /\ d2 < (280 * CP) * (280 * CP)
           /\ d2 > CP * CP
        THEN LET d == Sqrt(d2)
                 f == Quot((280 * CP - d) * 4500, 280 * CP)
             IN  <<Quot(-dy * f, d), Quot(dx * f, d)>>
        ELSE <<0, 0>>

\* Lines 192-201: velocity increment from the pointer sample m.
MouseInc(s, m) ==
    IF m.x # Null
    THEN LET dx == Quot(s.x - m.x[1] * FP, 100)
             dy == Quot(s.y - m.y[1] * FP, 100)
             d2 == dx * dx + dy * dy
         IN  IF /\ Abs(dx) < 280 * CP
                /\ Abs(dy) < 280 * CP
                /\ d2 < (280 * CP) * (280 * CP)
                /\ d2 > CP * CP
             THEN LET d == Sqrt(d2)
                      f == Quot((280 * CP - d) * 4500, 280 * CP)
                  IN  <<Quot(-dy * f, d), Quot(dx * f, d)>>
             ELSE <<0, 0>>
    ELSE <<0, 0>>

\* Lines 204-205.
Damp(v) == Quot(v * 975, 1000)

\* WrapLow moving the coordinate the wrong way.
WrapLowAway(p, size) == IF p < -20 * FP THEN p - (size + 40) * FP ELSE p

\* Lines 213-216, one axis: p is the integrated coordinate, size is W or H.
WrapLow(p, size) == IF p < -20 * FP THEN p + (size + 40) * FP ELSE p
WrapHigh(p, size) == IF p > (size + 20) * FP THEN p - (size + 40) * FP ELSE p
WrapCoord(p, size) == WrapHigh(WrapLow(p, size), size)

\* The local flag `wrapped` (line 212) restricted to one axis.
WrapFlag(p, size) == p < -20 * FP \/ WrapLow(p, size) > (size + 20) * FP

\* ClearOnWrap that keeps the trail.
KeepOnWrap(trail, flag) == trail

\* Line 217.
ClearOnWrap(trail, flag) == IF flag THEN << >> ELSE trail

\* PushTrail evicting one sample too late.
PushTrailLate(trail, p, cap) ==
    LET t == Append(trail, p)
    IN  IF Len(t) > cap + 1 THEN Tail(t) ELSE t

\* Lines 220-221 and 230-231: push a sample, evict the oldest beyond cap.
PushTrail(trail, p, cap) ==
    LET t == Append(trail, p)
    IN  IF Len(t) > cap THEN Tail(t) ELSE t

\* Velocity of star s after lines 174-205.
NewVelocity(s, vcs, m) ==
    LET v == VortexSum(s, vcs, Len(vcs))
        p == MouseInc(s, m)
    IN  <<Damp(s.vx + v[1] + p[1]), Damp(s.vy + v[2] + p[2])>>

\* One iteration of the star loop, lines 168-221.
UpdateStar(s, vcs, m, w, h) ==
    LET v  == NewVelocity(s, vcs, m)
        x1 == s.x + v[1]
        y1 == s.y + v[2]
        x2 == WrapCoord(x1, w)
        y2 == WrapCoord(y1, h)
        flag == WrapFlag(x1, w) \/ WrapFlag(y1, h)
    IN  [s EXCEPT !.vx = v[1], !.vy = v[2], !.x = x2, !.y = y2,
                  !.trail = PushTrail(ClearOnWrap(s.trail, flag),
                                      [x |-> x2, y |-> y2], s.maxTrail)]

\* The flag `wrapped` at the end of that iteration, lines 212-216.
StarWrapped(s, vcs, m, w, h) ==
    LET v == NewVelocity(s, vcs, m)
    IN  WrapFlag(s.x + v[1], w) \/ WrapFlag(s.y + v[2], h)

UpdateStars(list, vcs, m, w, h) ==
    [i \in 1..Len(list) |-> UpdateStar(list[i], vcs, m, w, h)]

\* Lines 227-231.
StepShooting(ss) ==
    LET x1 == ss.x + ss.vx
        y1 == ss.y + ss.vy
        l1 == ss.life - ss.decay
    IN  [ss EXCEPT !.x = x1, !.y = y1, !.life = l1,
                   !.trail = PushTrail(ss.trail, [x |-> x1, y |-> y1, a |-> l1],
                                       ss.maxTrail)]

\* Expired that never holds: no shooting star is removed.
ExpiredNever(ss) == FALSE

\* Line 232.
Expired(ss) == ss.life <= 0

Splice(list, i) == SubSeq(list, 1, i - 1) \o SubSeq(list, i + 1, Len(list))

\* The reverse loop of lines 225-233, from index i down to 1.
RECURSIVE ShootingLoop(_, _)
ShootingLoop(list, i) ==
    IF i < 1 THEN list
    ELSE LET stepped == [list EXCEPT ![i] = StepShooting(list[i])]
         IN  ShootingLoop(IF Expired(stepped[i]) THEN Splice(stepped, i)
                                                 ELSE stepped,
                          i - 1)

UpdateShootingStars(list) == ShootingLoop(list, Len(list))

\* The entities line 232 splices out of list, as they are when removed.
SplicedOut(list) ==
    SelectSeq([i \in 1..Len(list) |-> StepShooting(list[i])], Expired)

(***************************************************************************)
(* Draw.  An operation is <<kind, entity index, sample index>>.            *)
(***************************************************************************)
\* Lines 121-154: outer glow, body, crescent shadow.
DrawMoon == << <<"moonGlow", 0, 0>>, <<"moonBody", 0, 0>>, <<"moonShadow", 0, 0>> >>

\* Lines 256-258: the segment from sample a to sample b spans more than ~100px.
TooLong(a, b) ==
    LET dx == Quot(b.x - a.x, 100)
        dy == Quot(b.y - a.y, 100)
    IN  \/ Abs(dx) > 100 * CP
        \/ Abs(dy) > 100 * CP
        \/ dx * dx + dy * dy > (100 * CP) * (100 * CP)

\* Lines 254-270: the stroked segments of star i's trail t, from sample j on.
RECURSIVE StarSegments(_, _, _)
StarSegments(t, i, j) ==
    IF j > Len(t) THEN << >>
    ELSE (IF TooLong(t[j - 1], t[j]) THEN << >> ELSE << <<"seg", i, j>> >>)
         \o StarSegments(t, i, j + 1)

\* Lines 249-287: one iteration of the star loop of draw().
DrawStar(s, i) ==
    IF Len(s.trail) < 2 THEN << >>
    ELSE StarSegments(s.trail, i, 2)
         \o << <<"body", i, 0>> >>
         \o (IF s.baseSize > 2000 THEN << <<"glow", i, 0>> >> ELSE << >>)

\* The star loop of draw(), lines 248-288, over the stars lo..hi.
RECURSIVE DrawStars(_, _, _)
DrawStars(list, lo, hi) ==
    IF lo > hi THEN << >>
    ELSE IF lo = hi THEN DrawStar(list[lo], lo)
    ELSE LET mid == (lo + hi) \div 2
         IN  DrawStars(list, lo, mid) \o DrawStars(list, mid + 1, hi)

\* Lines 291-305.
RECURSIVE DrawShooting(_, _)
DrawShooting(list, i) ==
    IF i > Len(list) THEN << >>
    ELSE [j \in 1..(Len(list[i].trail) - 1) |-> <<"shoot", i, j + 1>>]
         \o DrawShooting(list, i + 1)

\* Lines 239-306.
Draw(starList, shootList) ==
    << <<"clear", 0, 0>> >> \o DrawMoon
    \o DrawStars(starList, 1, Len(starList)) \o DrawShooting(shootList, 1)

(***************************************************************************)
(* Scroll dimming, lines 334-335, for scroll offset sy and viewport height *)
(* vh (pixels).  A zero vh makes the quotient NaN or +-Infinity.           *)
(***************************************************************************)
DimOf(sy, vh) ==
    IF vh = 0
    THEN IF sy = 0 THEN <<"NaN", 0>>
         ELSE IF sy < 0 THEN <<"Infinity", 0>>
         ELSE <<"num", 350>>
    ELSE <<"num", Max(350, 1000 - ((sy * 10000) \div (vh * 18)))>>

(***************************************************************************)
(* Inputs the environment delivers.                                        *)
(***************************************************************************)
Sizes == { <<104, 100>>, <<200, 80>> }
LifeSizes == { <<90, 50>> }
LifeResizes == { <<60, 40>> }
PopSizes == { <<1000, 800>>, <<1600, 1000>>, <<110, 100>> }
Seeds == { 7, 290 }
MousePoints == { <<60, 0>>, <<50, 50>> }
ScrollYs == { -50, 0, 1440 }
ViewHeights == { 800 }
SpawnDraws == { 0, 500 }
NoSpawnDraws == { 500 }
ShotDraws ==
    { [angle |-> 0,   speed |-> 0,   x |-> 500, y |-> 500, decay |-> 0,   size |-> 0],
      [angle |-> 999, speed |-> 999, x |-> 100, y |-> 900, decay |-> 999, size |-> 999] }

(***************************************************************************)
(* Operations.                                                             *)
(***************************************************************************)
\* loop(), lines 311-315: update() then draw(); raf(loop) schedules the next.
\* draws is the set of outcomes of the spawn draw of line 163.
Loop(cap, draws) ==
    /\ time < cap
    /\ time' = time + 1
    /\ stars' = UpdateStars(stars, vortexCenters, mouse, W, H)
    /\ wrapped' = [i \in 1..Len(stars) |->
                      StarWrapped(stars[i], vortexCenters, mouse, W, H)]
    /\ \E draw \in draws, d \in ShotDraws :
          /\ shootingStars' =
                UpdateShootingStars(MaybeSpawn(shootingStars, draw, d, W, H, time + 1))
          /\ removed' = SplicedOut(MaybeSpawn(shootingStars, draw, d, W, H, time + 1))
    /\ ops' = Draw(stars', shootingStars')
    /\ last' = "loop"
    /\ UNCHANGED <<W, H, mouse, vortexCenters, scrollDim, inputs>>

\* The resize listener, line 320: resize(); initStars().  cap bounds the
\* number of input events of the run.
Resize(sizes, cap) ==
    /\ inputs < cap
    /\ \E sz \in sizes, seed \in Seeds :
          /\ W' = sz[1]
          /\ H' = sz[2]
          /\ vortexCenters' = VortexLayout(sz[1], sz[2])
          /\ stars' = InitStars(seed, sz[1], sz[2])
          /\ wrapped' = [i \in 1..StarCount(sz[1], sz[2]) |-> FALSE]
    /\ inputs' = inputs + 1
    /\ ops' = << >>
    /\ last' = "resize"
    /\ UNCHANGED <<mouse, shootingStars, time, scrollDim, removed>>

\* The mousemove listener, lines 322-325.
OnMouseMove ==
    /\ inputs < MaxInputs
    /\ \E p \in MousePoints : mouse' = [x |-> Num(p[1]), y |-> Num(p[2])]
    /\ inputs' = inputs + 1
    /\ ops' = << >>
    /\ last' = "mousemove"
    /\ UNCHANGED <<W, H, stars, shootingStars, vortexCenters, time, scrollDim, removed, wrapped>>

\* The mouseout listener, lines 327-330.
OnMouseOut ==
    /\ inputs < MaxInputs
    /\ mouse' = [x |-> Null, y |-> Null]
    /\ inputs' = inputs + 1
    /\ ops' = << >>
    /\ last' = "mouseout"
    /\ UNCHANGED <<W, H, stars, shootingStars, vortexCenters, time, scrollDim, removed, wrapped>>

\* The scroll listener, lines 333-336.
OnScroll ==
    /\ inputs < MaxInputs
    /\ \E sy \in ScrollYs, vh \in ViewHeights : scrollDim' = DimOf(sy, vh)
    /\ inputs' = inputs + 1
    /\ ops' = << >>
    /\ last' = "scroll"
    /\ UNCHANGED <<W, H, mouse, stars, shootingStars, vortexCenters, time, removed, wrapped>>

\* Boot, lines 339-341: resize(); initStars(); loop().
Boot(sizes, draws) ==
    \E sz \in sizes, seed \in Seeds, draw \in draws, d \in ShotDraws :
        /\ W = sz[1]
        /\ H = sz[2]
        /\ vortexCenters = VortexLayout(sz[1], sz[2])
        /\ mouse = [x |-> Null, y |-> Null]
        /\ scrollDim = <<"num", 1000>>
        /\ time = 1
        /\ shootingStars = UpdateShootingStars(MaybeSpawn(<< >>, draw, d, sz[1], sz[2], 1))
        /\ removed = SplicedOut(MaybeSpawn(<< >>, draw, d, sz[1], sz[2], 1))
        /\ stars = UpdateStars(InitStars(seed, sz[1], sz[2]),
                               VortexLayout(sz[1], sz[2]),
                               [x |-> Null, y |-> Null], sz[1], sz[2])
        /\ wrapped = [i \in 1..StarCount(sz[1], sz[2]) |->
                         StarWrapped(InitStars(seed, sz[1], sz[2])[i],
                                     VortexLayout(sz[1], sz[2]),
                                     [x |-> Null, y |-> Null], sz[1], sz[2])]
        /\ ops = Draw(stars, shootingStars)
        /\ last = "boot"
        /\ inputs = 0

(***************************************************************************)
(* Spec: surfaces that hold a few stars, every kind of input event, and a  *)
(* spawn draw that fails (as it does in 99.75% of the ticks).              *)
(***************************************************************************)
Init == Boot(Sizes, NoSpawnDraws)
Tick == Loop(MaxTicks, NoSpawnDraws)
OnResize == Resize(Sizes, MaxInputs)
Next == Tick \/ OnResize \/ OnMouseMove \/ OnMouseOut \/ OnScroll
Spec == Init /\ [][Next]_vars

(***************************************************************************)
(* SpecLife: surfaces too small to hold a star, every outcome of the spawn *)
(* draw, over the lifetime of a shooting star.                             *)
(***************************************************************************)
InitLife == Boot(LifeSizes, SpawnDraws)
TickLife == Loop(LifeTicks, SpawnDraws)
OnResizeLife == Resize(LifeResizes, LifeInputs)
NextLife == TickLife \/ OnResizeLife
SpecLife == InitLife /\ [][NextLife]_vars

(***************************************************************************)
(* SpecPop: full-size surfaces, a few ticks.                               *)
(***************************************************************************)
InitPop == Boot(PopSizes, NoSpawnDraws)
TickPop == Loop(PopTicks, NoSpawnDraws)
OnResizePop == Resize(PopSizes, MaxInputs)
NextPop == TickPop \/ OnResizePop
SpecPop == InitPop /\ [][NextPop]_vars

(***************************************************************************)
(* Properties.                                                             *)
(***************************************************************************)
StarIds == 1..Len(stars)
ShootIds == 1..Len(shootingStars)

InBox(s) ==
    /\ -20 * FP <= s.x /\ s.x <= (W + 20) * FP
    /\ -20 * FP <= s.y /\ s.y <= (H + 20) * FP

\* C1: at every tick boundary, whatever ticks and input events came before,
\* every star's trail holds at most maxTrail samples.
C1_TrailWithinCapacity ==
    \A i \in StarIds : Len(stars[i].trail) <= stars[i].maxTrail

\* A run without input events has pushed more samples than the capacity of a
\* star (13 pushes or more, capacity 12 or 13) and its trail is full.
C1_Witness ==
    /\ inputs = 0
    /\ \E i \in StarIds : /\ time > stars[i].maxTrail
                          /\ Len(stars[i].trail) = stars[i].maxTrail

\* C2: at most 2 shooting stars are active at any tick boundary, resize
\* events included, and no tick spawns more than one (no two share a birth
\* tick).
C2_AtMostTwoShooting ==
    /\ Len(shootingStars) <= 2
    /\ \A i, j \in ShootIds : i # j => shootingStars[i].born # shootingStars[j].born

\* Two shooting stars are active, after a resize event and at least one
\* tick after the second was spawned.
C2_Witness ==
    /\ Len(shootingStars) = 2
    /\ inputs > 0
    /\ time > shootingStars[2].born

\* C3: in a tick whose integration carries a star more than 20 units outside
\* the surface, the trail of that star is emptied before the sample of that
\* tick is pushed: after the tick it holds the wrapped position and nothing
\* else.
C3_WrapClearsTrail ==
    [][ time' # time =>
          \A i \in StarIds :
              LET x1 == stars[i].x + stars'[i].vx
                  y1 == stars[i].y + stars'[i].vy
              IN  (\/ x1 < -20 * FP \/ x1 > (W + 20) * FP
                   \/ y1 < -20 * FP \/ y1 > (H + 20) * FP)
                  => stars'[i].trail = << [x |-> stars'[i].x, y |-> stars'[i].y] >>
      ]_vars

\* A star wrapped in the latest tick, several ticks after boot.
C3_Witness ==
    \E i \in StarIds : wrapped[i] /\ time > 3 /\ Len(stars[i].trail) = 1

\* C4: a shooting star's life is 1.0 when it is spawned (1.0 - decay at the
\* end of the spawning tick), never increases from one tick to the next, the
\* entity leaves the active set in the first tick that takes its life to 0
\* or below, and no active shooting star has life <= 0 at a tick boundary.
C4_LifeDecays ==
    /\ [](\A i \in ShootIds : shootingStars[i].life > 0)
    /\ [][ time' # time =>
             /\ \A j \in 1..Len(shootingStars') :
                   LET n == shootingStars'[j]
                   IN  IF \E i \in ShootIds : shootingStars[i].born = n.born
                       THEN \A i \in ShootIds :
                               shootingStars[i].born = n.born
                                   => n.life <= shootingStars[i].life
                       ELSE n.born = time' /\ n.life + n.decay = 1000000
             /\ \A i \in ShootIds :
                   \/ \E j \in 1..Len(shootingStars') :
                         shootingStars'[j].born = shootingStars[i].born
                   \/ \E j \in 1..Len(removed') :
                         /\ removed'[j].born = shootingStars[i].born
                         /\ removed'[j].life <= 0
             /\ \A j \in 1..Len(removed') :
                   \A k \in 1..Len(shootingStars') :
                       shootingStars'[k].born # removed'[j].born
         ]_vars

\* The latest tick removed a shooting star whose life had run out while
\* another one stayed active.
C4_Witness ==
    /\ Len(removed) = 1
    /\ removed[1].life <= 0
    /\ Len(shootingStars) = 1

\* C5: after boot, after every resize and at every later tick boundary the
\* number of stars is min(280, floor(W*H/5200)); 153 on a 1000x800 surface.
C5_StarCount ==
    LET n == Len(stars)
    IN  /\ n <= 280
        /\ n * 5200 <= W * H
        /\ n < 280 => W * H < (n + 1) * 5200
        /\ (W = 1000 /\ H = 800) => n = 153

\* A surface large enough for the cap: 280 stars after a resize and a tick.
C5_Witness ==
    /\ inputs > 0
    /\ W * H > 280 * 5200
    /\ Len(stars) = 280
    /\ Len(stars[1].trail) > 0

\* C6: in a tick that runs while the pointer sample is absent, the velocity
\* of every star changes by the vortex increments and the damping only.
C6_AbsentPointerNoForce ==
    [][ (time' # time /\ mouse.x = Null) =>
          \A i \in StarIds :
              LET v == VortexSum(stars[i], vortexCenters, Len(vortexCenters))
              IN  /\ stars'[i].vx = Damp(stars[i].vx + v[1])
                  /\ stars'[i].vy = Damp(stars[i].vy + v[2])
      ]_vars

\* The pointer is absent after input events were delivered, a tick has run
\* since, and a star sits inside a vortex and within 280 pixels of (0, 0).
C6_Witness ==
    /\ mouse.x = Null
    /\ inputs = MaxInputs
    /\ last = "loop"
    /\ \E i \in StarIds :
          /\ VortexSum(stars[i], vortexCenters, Len(vortexCenters)) # <<0, 0>>
          /\ Len(stars[i].trail) > 1

\* C7 as claimed: scrollDim is a number in [0.35, 1.0] in every reachable
\* state, whatever scroll offset and viewport height a scroll event carries.
C7_DimInRange ==
    /\ scrollDim[1] = "num"
    /\ 350 <= scrollDim[2]
    /\ scrollDim[2] <= 1000

\* C8 as claimed: a render pass issues clear, moon, then per star its trail
\* segments, its body disc and (baseSize > 2) its glow, then the shooting
\* star trails; the body disc of every star is issued in every pass.
ClaimedStar(s, i) ==
    (IF Len(s.trail) < 2 THEN << >> ELSE StarSegments(s.trail, i, 2))
    \o << <<"body", i, 0>> >>
    \o (IF s.baseSize > 2000 THEN << <<"glow", i, 0>> >> ELSE << >>)

RECURSIVE ClaimedStars(_, _)
ClaimedStars(list, i) ==
    IF i > Len(list) THEN << >>
    ELSE ClaimedStar(list[i], i) \o ClaimedStars(list, i + 1)

C8_DrawOrder ==
    last \in {"boot", "loop"} =>
        ops = << <<"clear", 0, 0>> >> \o DrawMoon
              \o ClaimedStars(stars, 1) \o DrawShooting(shootingStars, 1)

\* C9 as claimed: right after the resize handler no star and no shooting
\* star holds a trail sample, and the vortex centers are those of the new
\* dimensions.
C9_ResizeDropsAllTrails ==
    last = "resize" =>
        /\ \A i \in StarIds : stars[i].trail = << >>
        /\ \A i \in ShootIds : shootingStars[i].trail = << >>
        /\ vortexCenters = VortexLayout(W, H)

\* C10: at the end of every tick every star is inside the margin box
\* [-20, W + 20] x [-20, H + 20]; one wrap step is enough.
C10_StarsInBox == \A i \in StarIds : InBox(stars[i])

\* A star that left the box during the latest tick and was wrapped back.
C10_Witness == \E i \in StarIds : wrapped[i] /\ InBox(stars[i])

====
